---- MODULE Spec2Model ----
(***************************************************************************)
(* The rancher_volume resource of terraform-provider-rancher: the five     *)
(* lifecycle callbacks (create, read, update, delete, import), the state   *)
(* refresh closure they hand to the poller, and the remote volume they     *)
(* act on.                                                                 *)
(*                                                                         *)
(* One invocation runs at a time (the callbacks are synchronous).  Each    *)
(* remote call of a callback is one step, so the remote volume may change  *)
(* state between two calls of the same invocation.  A nil pointer          *)
(* dereference ends the invocation with ret = "panic".                     *)
(*                                                                         *)
(* Spec is that resource under arbitrary invocations; FairSpec adds that   *)
(* a running callback goes on; PairSpec is two resources whose callbacks   *)
(* run concurrently on two volumes.                                        *)
(***************************************************************************)
EXTENDS Naturals, Sequences, FiniteSets

VARIABLES
    d,          \* the declared bag (*schema.ResourceData)
    vol,        \* the remote volume (the only one the API serves)
    minted,     \* the API has already issued VolId to a created volume
    op,         \* the callback invoked last: none, create, read, ...
    pc,         \* position inside the running callback, or "idle"
    ret,        \* how the last invocation ended: none, running, nil, error, panic
    err,        \* the error it returned: [kind, at]
    dBefore,    \* the declared bag when the invocation began
    rawId,      \* the id the importer was invoked with
    volume,     \* the callback's local `volume` (result of its last ById)
    wid,        \* the volume id captured by the refresh closure
    wstep,      \* position inside WaitForState: none, delay, poll
    obs,        \* per convergence phase, the states its fetches returned
    fetches,    \* per convergence phase, the number of fetches performed
    sleeps,     \* per convergence phase, the sleeps taken between polls
    delays,     \* per convergence phase, the initial delays taken
    calls,      \* per remote API, the calls made by this invocation
    failed,     \* the remote APIs that failed with a transport error in it
    removeAt,   \* the fetch counts at the moment ActionRemove was called
    reads,      \* successive reads answered with the remote left alone (up to 2)
    bags,       \* two resources managed concurrently: their declared bags,
    vols,       \* the remote volumes the API serves, by volume id,
    invs,       \* the locals of the invocation running on each resource,
    alone       \* and each invocation run alone: locals, bag, its own API

\* The state of the resource whose callbacks are invoked one at a time.
solo == <<d, vol, minted, op, pc, ret, err, dBefore, rawId, volume, wid, wstep,
          obs, fetches, sleeps, delays, calls, failed, removeAt, reads>>

\* The state of the two resources whose callbacks run concurrently.
pair == <<bags, vols, invs, alone>>

vars == <<solo, pair>>

----------------------------------------------------------------------------
(* Bounds and value sets *)

\* Fetches that fit into one WaitForState call before its Timeout elapses.
MaxPolls == 3

Names == {"foo", "foo2"}
Descriptions == {"volume test"}
Drivers == {"rancher-nfs", "rancher-ebs"}
Envs == {"env1"}

\* Ids are sequences of tokens, "/" being the separator token.
NoId == <<>>
VolId == <<"vol-123">>
OtherId == <<"vol-404">>

\* The second volume of the concurrent deletes, and the two resources.
VolId2 == <<"vol-456">>
PairIds == {VolId, VolId2}
Inv == {1, 2}

\* The lifecycle tags of a remote volume; "absent" is the API's 404.
States == {"creating", "active", "deactivating", "inactive", "detached",
           "removing", "removed"}

Nil == [state |-> "absent", name |-> "", description |-> "", driver |-> "",
        accountId |-> ""]

NoErr == [kind |-> "nil", at |-> "none"]

Phases == {"create", "drain", "remove"}
Apis == {"Create", "ById", "Update", "ActionRemove", "Refresh"}

EmptyBag == [id |-> NoId, name |-> "", description |-> "", driver |-> "",
             environment_id |-> ""]

----------------------------------------------------------------------------
(* The remote API client (rancherClient.VolumeClient) as the callbacks use it *)

\* client.Volume.ById(id): the volume, or nil when the API answers 404.
ById(id) == IF id = VolId /\ vol.state # "absent" THEN vol ELSE Nil

\* removed(state): the volume is in a removed terminal state.
removed(state) == state = "removed"

\* States in which the platform accepts a remove request.
Removable == {"inactive", "detached"}

\* splitID(id): the part before the first "/" and the part after it.
RECURSIVE SlashAt(_, _)
SlashAt(id, i) ==
    IF i > Len(id) THEN 0
    ELSE IF id[i] = "/" THEN i ELSE SlashAt(id, i + 1)

splitID(id) ==
    LET k == SlashAt(id, 1)
    IN IF k = 0 THEN [envID |-> "", resourceID |-> id]
       ELSE [envID |-> IF k = 1 THEN "" ELSE id[1],
             resourceID |-> SubSeq(id, k + 1, Len(id))]

----------------------------------------------------------------------------
(* The convergence requests of the three call sites *)

\* The settle wait with a target the new volume does not settle in.
CreateConf_ActiveTarget == [Pending |-> {"inactive"}, Target |-> {"active"}]

CreateConf == [Pending |-> {"inactive"}, Target |-> {"inactive"}]

\* A drain wait that keeps polling a volume already being removed.
DrainConf_PendingRemoving ==
    [Pending |-> {"active", "deactivating", "removing", "removed"},
     Target |-> {"inactive", "detached"}]

\* A drain wait taking a volume still deactivating for a drained one.
DrainConf_TargetDeactivating ==
    [Pending |-> {"active"}, Target |-> {"deactivating", "inactive", "detached"}]

DrainConf == [Pending |-> {"active", "deactivating"},
              Target |-> {"inactive", "detached"}]

\* The removal wait taking a volume still being removed for a removed one.
RemoveConf_TargetRemoving ==
    [Pending |-> {"inactive", "detached"}, Target |-> {"removed", "removing"}]

RemoveConf == [Pending |-> {"inactive", "detached", "removed", "removing"},
               Target |-> {"removed"}]

Conf(phase) ==
    CASE phase = "create" -> CreateConf
      [] phase = "drain" -> DrainConf
      [] phase = "remove" -> RemoveConf

\* The phase a position of a callback waits in.
PhaseOf(p) ==
    CASE p = "create_wait" -> "create"
      [] p = "delete_drain" -> "drain"
      [] p = "delete_wait" -> "remove"
      [] OTHER -> "none"

\* VolumeStateRefreshFunc's closure: (env, env.State, nil), or the transport
\* error; env.State of a nil env is a nil pointer dereference.
RefreshResult(id, ok) ==
    IF ~ok THEN [kind |-> "error", state |-> ""]
    ELSE IF ById(id) = Nil THEN [kind |-> "panic", state |-> ""]
    ELSE [kind |-> "value", state |-> ById(id).state]

\* WaitForState's reading of one fetched state: the target set is looked up
\* first, then the pending set; a state in neither is unexpected.
Classify(conf, state) ==
    IF state \in conf.Target THEN "target"
    ELSE IF state \in conf.Pending THEN "pending"
    ELSE "unexpected"

\* One round of WaitForState's loop after the n-th fetch returned r: the wait
\* ends (done, unexpected, timeout, error, panic) or sleeps and polls again.
WaitOutcome(conf, n, r) ==
    CASE r.kind = "error" -> "error"
      [] r.kind = "panic" -> "panic"
      [] OTHER ->
           LET c == Classify(conf, r.state)
           IN CASE c = "target" -> "done"
                [] c = "unexpected" -> "unexpected"
                [] OTHER -> IF n >= MaxPolls THEN "timeout" ELSE "continue"

----------------------------------------------------------------------------
(* Projections of the callbacks' local computations *)

\* A read that keeps the id of a volume found in a removed state.
ReadBag_KeepRemoved(bag, v) ==
    IF v = Nil THEN [bag EXCEPT !.id = NoId]
    ELSE IF removed(v.state) THEN bag
    ELSE [bag EXCEPT !.description = v.description,
                     !.name = v.name,
                     !.driver = v.driver,
                     !.environment_id = v.accountId]

\* A read that takes the name from the bag's description instead of the
\* volume's name.
ReadBag_NameFromBag(bag, v) ==
    IF v = Nil THEN [bag EXCEPT !.id = NoId]
    ELSE IF removed(v.state) THEN [bag EXCEPT !.id = NoId]
    ELSE [bag EXCEPT !.description = v.description,
                     !.name = bag.description,
                     !.driver = v.driver,
                     !.environment_id = v.accountId]

\* resourceRancherVolumeRead after a successful ById returned v.
ReadBag(bag, v) ==
    IF v = Nil THEN [bag EXCEPT !.id = NoId]
    ELSE IF removed(v.state) THEN [bag EXCEPT !.id = NoId]
    ELSE [bag EXCEPT !.description = v.description,
                     !.name = v.name,
                     !.driver = v.driver,
                     !.environment_id = v.accountId]

\* The rancherClient.Volume that create sends.
NewVolume(bag) ==
    [state |-> "creating", name |-> bag.name, description |-> bag.description,
     driver |-> bag.driver, accountId |-> bag.environment_id]

\* The volume update sends: the fetched one with name and description set.
UpdatedVolume(v, bag) ==
    [v EXCEPT !.name = bag.name, !.description = bag.description]

\* A create that forgets to store the new volume's id.
CreatedBag_NoId(bag, newId) == bag

\* d.SetId(newVolume.Id): the bag once the new volume has settled.
CreatedBag(bag, newId) == [bag EXCEPT !.id = newId]

\* A delete that forgets to clear the id.
DeletedBag_Keep(bag) == bag

\* d.SetId(""): the bag once the removal has converged.
DeletedBag(bag) == [bag EXCEPT !.id = NoId]

\* A callback that goes on after an unexpected-state error of its wait.
WaitErrReturned_IgnoreUnexpected(outcome) == outcome \in {"error", "timeout"}

\* A callback that goes on after a timeout of its wait.
WaitErrReturned_IgnoreTimeout(outcome) == outcome \in {"error", "unexpected"}

\* `if waitErr != nil { return fmt.Errorf(...) }` after each WaitForState.
WaitErrReturned(outcome) == outcome \in {"error", "unexpected", "timeout"}

\* The error kind a failed wait is reported with.
WaitErrKind(outcome) == IF outcome = "error" THEN "transport" ELSE outcome

----------------------------------------------------------------------------
(* Bookkeeping shared by the steps *)

Zero(S) == [x \in S |-> 0]

NoRemove == [drain |-> 0, remove |-> 0, called |-> FALSE]

Bump(f, x) == [f EXCEPT ![x] = @ + 1]

\* One call of a remote API, answered (ok) or failed in transport.
Call(api, ok) ==
    /\ calls' = Bump(calls, api)
    /\ failed' = IF ok THEN failed ELSE failed \cup {api}

NoCall == UNCHANGED <<calls, failed>>

\* The host enters callback o at position p with bag `bag`.
Begin(o, p, bag, raw) ==
    /\ pc = "idle"
    /\ op' = o
    /\ pc' = p
    /\ ret' = "running"
    /\ err' = NoErr
    /\ dBefore' = IF d.id = NoId THEN EmptyBag ELSE d
    /\ d' = bag
    /\ rawId' = raw
    /\ volume' = Nil
    /\ wid' = NoId
    /\ wstep' = "none"
    /\ obs' = [ph \in Phases |-> <<>>]
    /\ fetches' = Zero(Phases)
    /\ sleeps' = Zero(Phases)
    /\ delays' = Zero(Phases)
    /\ calls' = Zero(Apis)
    /\ failed' = {}
    /\ removeAt' = NoRemove
    /\ reads' = IF o = "read" THEN reads ELSE 0
    /\ UNCHANGED <<vol, minted, pair>>

\* The callback returns nil.
ReturnNil ==
    /\ pc' = "idle"
    /\ ret' = "nil"
    /\ err' = NoErr
    /\ wstep' = "none"

\* The callback returns an error of `kind` raised at its current position.
ReturnError(kind) ==
    /\ pc' = "idle"
    /\ ret' = "error"
    /\ err' = [kind |-> kind, at |-> pc]
    /\ wstep' = "none"

\* A nil pointer dereference: the plugin process dies, and the host keeps
\* the bag it had persisted before the invocation.
Panic ==
    /\ pc' = "idle"
    /\ ret' = "panic"
    /\ err' = [kind |-> "panic", at |-> pc]
    /\ wstep' = "none"
    /\ d' = dBefore

----------------------------------------------------------------------------
(* The host runtime invoking the callbacks *)

StartCreate(name, description, driver, env) ==
    /\ d.id = NoId
    /\ ~minted
    /\ Begin("create", "create_client",
             [id |-> NoId, name |-> name, description |-> description,
              driver |-> driver, environment_id |-> env], NoId)

StartRead ==
    /\ d.id # NoId
    /\ Begin("read", "read_client", d, NoId)

StartUpdate(name, description, driver) ==
    /\ d.id # NoId
    /\ Begin("update", "update_client",
             [d EXCEPT !.name = name, !.description = description,
                       !.driver = driver], NoId)

StartDelete ==
    /\ d.id # NoId
    /\ Begin("delete", "delete_client", d, NoId)

StartImport(raw) ==
    /\ d.id = NoId
    /\ Begin("import", "import_split", EmptyBag, raw)

----------------------------------------------------------------------------
(* resourceRancherVolumeCreate *)

\* meta.(*Config).EnvironmentClient(environment_id)
CreateClient(ok) ==
    /\ pc = "create_client"
    /\ NoCall
    /\ IF ok THEN /\ pc' = "create_call"
                  /\ UNCHANGED <<ret, err, wstep>>
             ELSE ReturnError("client")
    /\ UNCHANGED <<reads, pair>>
    /\ UNCHANGED <<d, vol, minted, op, dBefore, rawId, volume, wid, obs, fetches,
                   sleeps, delays, removeAt>>

\* client.Volume.Create(&volume), then the settle wait is set up.
CreateCall(ok) ==
    /\ pc = "create_call"
    /\ Call("Create", ok)
    /\ IF ok
       THEN /\ vol' = NewVolume(d)
            /\ minted' = TRUE
            /\ wid' = VolId
            /\ pc' = "create_wait"
            /\ wstep' = "delay"
            /\ UNCHANGED <<ret, err>>
       ELSE /\ ReturnError("transport")
            /\ UNCHANGED <<vol, minted, wid>>
    /\ UNCHANGED <<reads, pair>>
    /\ UNCHANGED <<d, op, dBefore, rawId, volume, obs, fetches, sleeps, delays,
                   removeAt>>

----------------------------------------------------------------------------
(* resourceRancherVolumeRead, also the tail of create and update *)

ReadClient(ok) ==
    /\ pc = "read_client"
    /\ NoCall
    /\ IF ok THEN /\ pc' = "read_byid"
                  /\ UNCHANGED <<ret, err, wstep>>
             ELSE ReturnError("client")
    /\ reads' = IF op = "read" /\ ~ok THEN 0 ELSE reads
    /\ UNCHANGED pair
    /\ UNCHANGED <<d, vol, minted, op, dBefore, rawId, volume, wid, obs, fetches,
                   sleeps, delays, removeAt>>

ReadById(ok) ==
    /\ pc = "read_byid"
    /\ Call("ById", ok)
    /\ IF ok
       THEN /\ d' = ReadBag(d, ById(d.id))
            /\ ReturnNil
       ELSE /\ ReturnError("transport")
            /\ UNCHANGED d
    /\ reads' = IF op # "read" THEN reads
                ELSE IF ~ok THEN 0
                ELSE IF reads < 2 THEN reads + 1 ELSE reads
    /\ UNCHANGED pair
    /\ UNCHANGED <<vol, minted, op, dBefore, rawId, volume, wid, obs, fetches, sleeps,
                   delays, removeAt>>

----------------------------------------------------------------------------
(* resourceRancherVolumeUpdate *)

UpdateClient(ok) ==
    /\ pc = "update_client"
    /\ NoCall
    /\ IF ok THEN /\ pc' = "update_byid"
                  /\ UNCHANGED <<ret, err, wstep>>
             ELSE ReturnError("client")
    /\ UNCHANGED <<reads, pair>>
    /\ UNCHANGED <<d, vol, minted, op, dBefore, rawId, volume, wid, obs, fetches,
                   sleeps, delays, removeAt>>

\* client.Volume.ById(d.Id()); volume.Name = name dereferences the result.
UpdateById(ok) ==
    /\ pc = "update_byid"
    /\ Call("ById", ok)
    /\ IF ~ok
       THEN /\ ReturnError("transport")
            /\ UNCHANGED <<d, volume>>
       ELSE IF ById(d.id) = Nil
       THEN /\ Panic
            /\ UNCHANGED volume
       ELSE /\ volume' = UpdatedVolume(ById(d.id), d)
            /\ pc' = "update_call"
            /\ UNCHANGED <<d, ret, err, wstep>>
    /\ UNCHANGED <<reads, pair>>
    /\ UNCHANGED <<vol, minted, op, dBefore, rawId, wid, obs, fetches, sleeps,
                   delays, removeAt>>

\* client.Volume.Update(volume, &volume): its error is not looked at.
UpdateCall(ok) ==
    /\ pc = "update_call"
    /\ Call("Update", ok)
    /\ vol' = IF ok /\ ById(d.id) # Nil
              THEN [vol EXCEPT !.name = volume.name,
                               !.description = volume.description]
              ELSE vol
    /\ volume' = Nil
    /\ pc' = "read_client"
    /\ UNCHANGED <<reads, pair>>
    /\ UNCHANGED <<d, minted, op, ret, err, dBefore, rawId, wid, wstep,
                   obs, fetches, sleeps, delays, removeAt>>

----------------------------------------------------------------------------
(* resourceRancherVolumeDelete *)

DeleteClient(ok) ==
    /\ pc = "delete_client"
    /\ NoCall
    /\ IF ok THEN /\ pc' = "delete_byid"
                  /\ UNCHANGED <<ret, err, wstep>>
             ELSE ReturnError("client")
    /\ UNCHANGED <<reads, pair>>
    /\ UNCHANGED <<d, vol, minted, op, dBefore, rawId, volume, wid, obs, fetches,
                   sleeps, delays, removeAt>>

\* volume, err := client.Volume.ById(d.Id()), a result no statement reads
\* before line 176 overwrites it; then the drain wait is set up.
DeleteById(ok) ==
    /\ pc = "delete_byid"
    /\ Call("ById", ok)
    /\ IF ok
       THEN /\ wid' = d.id
            /\ pc' = "delete_drain"
            /\ wstep' = "delay"
            /\ UNCHANGED <<ret, err>>
       ELSE /\ ReturnError("transport")
            /\ UNCHANGED wid
    /\ UNCHANGED <<reads, pair>>
    /\ UNCHANGED <<d, vol, minted, op, dBefore, rawId, volume, obs, fetches, sleeps,
                   delays, removeAt>>

\* volume, err = client.Volume.ById(id); ActionRemove(volume) takes the
\* address of a field of the result.
DeleteRefresh(ok) ==
    /\ pc = "delete_refresh"
    /\ Call("ById", ok)
    /\ IF ~ok
       THEN /\ ReturnError("transport")
            /\ UNCHANGED <<d, volume>>
       ELSE IF ById(wid) = Nil
       THEN /\ Panic
            /\ UNCHANGED volume
       ELSE /\ volume' = ById(wid)
            /\ pc' = "delete_remove"
            /\ UNCHANGED <<d, ret, err, wstep>>
    /\ UNCHANGED <<reads, pair>>
    /\ UNCHANGED <<vol, minted, op, dBefore, rawId, wid, obs, fetches, sleeps,
                   delays, removeAt>>

\* client.Volume.ActionRemove(volume), then the removal wait is set up.  The
\* platform accepts the request when the volume was and still is removable.
DeleteRemove(ok) ==
    /\ pc = "delete_remove"
    /\ Call("ActionRemove", ok)
    /\ removeAt' = [drain |-> fetches["drain"], remove |-> fetches["remove"],
                    called |-> TRUE]
    /\ IF ok /\ volume.state \in Removable /\ ById(wid).state \in Removable
       THEN /\ vol' = [vol EXCEPT !.state = "removing"]
            /\ pc' = "delete_wait"
            /\ wstep' = "delay"
            /\ UNCHANGED <<ret, err>>
       ELSE /\ ReturnError(IF ok THEN "api" ELSE "transport")
            /\ UNCHANGED vol
    /\ volume' = Nil
    /\ UNCHANGED <<reads, pair>>
    /\ UNCHANGED <<d, minted, op, dBefore, rawId, wid, obs, fetches, sleeps,
                   delays>>

----------------------------------------------------------------------------
(* resourceRancherVolumeImport *)

\* return []*schema.ResourceData{}, err: a failed import hands no bag back.
ImportFailed == EmptyBag

\* An importer that looks the scope up whatever the id says.
ScopeGiven_Never(envID) == FALSE

\* `if envID != ""`: the id names the scope.
ScopeGiven(envID) == envID # ""

\* envID, resourceID := splitID(d.Id()); d.SetId(resourceID); with a scope
\* given the importer is done.
ImportSplit ==
    /\ pc = "import_split"
    /\ NoCall
    /\ LET parts == splitID(rawId)
       IN IF ScopeGiven(parts.envID)
          THEN /\ d' = [d EXCEPT !.id = parts.resourceID,
                                 !.environment_id = parts.envID]
               /\ ReturnNil
          ELSE /\ d' = [d EXCEPT !.id = parts.resourceID]
               /\ pc' = "import_client"
               /\ UNCHANGED <<ret, err, wstep>>
    /\ UNCHANGED <<reads, pair>>
    /\ UNCHANGED <<vol, minted, op, dBefore, rawId, volume, wid, obs, fetches,
                   sleeps, delays, removeAt>>

\* meta.(*Config).GlobalClient()
ImportClient(ok) ==
    /\ pc = "import_client"
    /\ NoCall
    /\ IF ok THEN /\ pc' = "import_byid"
                  /\ UNCHANGED <<d, ret, err, wstep>>
             ELSE /\ ReturnError("client")
                  /\ d' = ImportFailed
    /\ UNCHANGED <<reads, pair>>
    /\ UNCHANGED <<vol, minted, op, dBefore, rawId, volume, wid, obs, fetches,
                   sleeps, delays, removeAt>>

\* client.Volume.ById(d.Id()); volume.AccountId dereferences the result.
ImportById(ok) ==
    /\ pc = "import_byid"
    /\ Call("ById", ok)
    /\ IF ~ok
       THEN /\ ReturnError("transport")
            /\ d' = ImportFailed
       ELSE IF ById(d.id) = Nil
       THEN Panic
       ELSE /\ d' = [d EXCEPT !.environment_id = ById(d.id).accountId]
            /\ ReturnNil
    /\ UNCHANGED <<reads, pair>>
    /\ UNCHANGED <<vol, minted, op, dBefore, rawId, volume, wid, obs, fetches, sleeps,
                   delays, removeAt>>

----------------------------------------------------------------------------
(* resource.StateChangeConf.WaitForState driving VolumeStateRefreshFunc *)

WaitPcs == {"create_wait", "delete_drain", "delete_wait"}

\* time.Sleep(conf.Delay) before the first fetch.
WaitDelay ==
    /\ pc \in WaitPcs
    /\ wstep = "delay"
    /\ wstep' = "poll"
    /\ delays' = Bump(delays, PhaseOf(pc))
    /\ NoCall
    /\ UNCHANGED <<reads, pair>>
    /\ UNCHANGED <<d, vol, minted, op, pc, ret, err, dBefore, rawId, volume, wid,
                   obs, fetches, sleeps, removeAt>>

\* What the callback does once its wait has succeeded.
WaitDone(ph) ==
    CASE ph = "create" ->
           /\ d' = CreatedBag(d, wid)
           /\ pc' = "read_client"
           /\ wstep' = "none"
           /\ UNCHANGED <<ret, err>>
      [] ph = "drain" ->
           /\ pc' = "delete_refresh"
           /\ wstep' = "none"
           /\ UNCHANGED <<d, ret, err>>
      [] ph = "remove" ->
           /\ d' = DeletedBag(d)
           /\ ReturnNil

\* One fetch of the refresh closure and WaitForState's reaction to it.
WaitRefresh(ok) ==
    /\ pc \in WaitPcs
    /\ wstep = "poll"
    /\ LET ph == PhaseOf(pc)
           r == RefreshResult(wid, ok)
           n == fetches[ph] + 1
           out == WaitOutcome(Conf(ph), n, r)
       IN /\ Call("Refresh", ok)
          /\ fetches' = Bump(fetches, ph)
          /\ obs' = IF r.kind = "value"
                    THEN [obs EXCEPT ![ph] = Append(@, r.state)]
                    ELSE obs
          /\ sleeps' = IF out = "continue" THEN Bump(sleeps, ph) ELSE sleeps
          /\ IF out = "panic"
             THEN Panic
             ELSE IF out = "continue"
             THEN UNCHANGED <<d, pc, ret, err, wstep>>
             ELSE IF WaitErrReturned(out)
             THEN /\ ReturnError(WaitErrKind(out))
                  /\ UNCHANGED d
             ELSE WaitDone(ph)
    /\ UNCHANGED <<reads, pair>>
    /\ UNCHANGED <<vol, minted, op, dBefore, rawId, volume, wid, delays, removeAt>>

----------------------------------------------------------------------------
(* The remote platform *)

\* The volume changes state on its own or out of band; a removed volume can
\* only be purged, and a purged one does not come back.
RemoteStep(s) ==
    /\ vol.state \in States
    /\ IF removed(vol.state)
       THEN s = "absent" /\ vol' = Nil
       ELSE s \in States \ {vol.state} /\ vol' = [vol EXCEPT !.state = s]
    /\ reads' = 0
    /\ UNCHANGED pair
    /\ UNCHANGED <<d, minted, op, pc, ret, err, dBefore, rawId, volume, wid, wstep,
                   obs, fetches, sleeps, delays, calls, failed, removeAt>>

----------------------------------------------------------------------------
(* The specification *)

\* The ids an import can be invoked with.
ImportIds == {VolId, OtherId, <<"env1", "/">> \o VolId, <<"env1", "/">> \o OtherId}

\* The configurations a volume is first declared with.
CreateNames == {"foo"}
CreateDrivers == {"rancher-nfs"}

\* A volume created outside this configuration, before the first invocation.
Existing ==
    {[state |-> "inactive", name |-> n, description |-> "volume test",
      driver |-> "rancher-nfs", accountId |-> e] : n \in {"foo"}, e \in {"env1"}}

SoloInit ==
    /\ vol \in {Nil} \cup Existing
    /\ minted = (vol # Nil)
    /\ d = EmptyBag
    /\ dBefore = EmptyBag
    /\ op = "none"
    /\ pc = "idle"
    /\ ret = "none"
    /\ err = NoErr
    /\ rawId = NoId
    /\ volume = Nil
    /\ wid = NoId
    /\ wstep = "none"
    /\ obs = [ph \in Phases |-> <<>>]
    /\ fetches = Zero(Phases)
    /\ sleeps = Zero(Phases)
    /\ delays = Zero(Phases)
    /\ calls = Zero(Apis)
    /\ failed = {}
    /\ removeAt = NoRemove
    /\ reads = 0

\* An invocation not yet made.
NoInv == [op |-> "none", pc |-> "idle", wstep |-> "none", wid |-> NoId, n |-> 0,
          ret |-> "none", at |-> "none", raw |-> NoId, local |-> Nil,
          before |-> EmptyBag]

\* No pair of resources is under concurrent management.
PairOff ==
    /\ bags = [i \in Inv |-> EmptyBag]
    /\ vols = [v \in PairIds |-> Nil]
    /\ invs = [i \in Inv |-> NoInv]
    /\ alone = [i \in Inv |-> [orphan |-> FALSE, inv |-> NoInv, bag |-> EmptyBag,
                               world |-> [v \in PairIds |-> Nil]]]

Init == SoloInit /\ PairOff

Next ==
    \/ \E n \in CreateNames, ds \in Descriptions, dr \in CreateDrivers, e \in Envs :
          StartCreate(n, ds, dr, e)
    \/ StartRead
    \/ \E n \in Names, ds \in Descriptions, dr \in Drivers : StartUpdate(n, ds, dr)
    \/ StartDelete
    \/ \E raw \in ImportIds : StartImport(raw)
    \/ \E ok \in BOOLEAN : CreateClient(ok)
    \/ \E ok \in BOOLEAN : CreateCall(ok)
    \/ \E ok \in BOOLEAN : ReadClient(ok)
    \/ \E ok \in BOOLEAN : ReadById(ok)
    \/ \E ok \in BOOLEAN : UpdateClient(ok)
    \/ \E ok \in BOOLEAN : UpdateById(ok)
    \/ \E ok \in BOOLEAN : UpdateCall(ok)
    \/ \E ok \in BOOLEAN : DeleteClient(ok)
    \/ \E ok \in BOOLEAN : DeleteById(ok)
    \/ \E ok \in BOOLEAN : DeleteRefresh(ok)
    \/ \E ok \in BOOLEAN : DeleteRemove(ok)
    \/ ImportSplit
    \/ \E ok \in BOOLEAN : ImportClient(ok)
    \/ \E ok \in BOOLEAN : ImportById(ok)
    \/ WaitDelay
    \/ \E ok \in BOOLEAN : WaitRefresh(ok)
    \/ \E s \in States \cup {"absent"} : RemoteStep(s)

Spec == Init /\ [][Next]_vars

\* One step of the running callback: an API call that returns, a sleep that
\* ends.
Step ==
    \/ \E ok \in BOOLEAN : CreateClient(ok)
    \/ \E ok \in BOOLEAN : CreateCall(ok)
    \/ \E ok \in BOOLEAN : ReadClient(ok)
    \/ \E ok \in BOOLEAN : ReadById(ok)
    \/ \E ok \in BOOLEAN : UpdateClient(ok)
    \/ \E ok \in BOOLEAN : UpdateById(ok)
    \/ \E ok \in BOOLEAN : UpdateCall(ok)
    \/ \E ok \in BOOLEAN : DeleteClient(ok)
    \/ \E ok \in BOOLEAN : DeleteById(ok)
    \/ \E ok \in BOOLEAN : DeleteRefresh(ok)
    \/ \E ok \in BOOLEAN : DeleteRemove(ok)
    \/ ImportSplit
    \/ \E ok \in BOOLEAN : ImportClient(ok)
    \/ \E ok \in BOOLEAN : ImportById(ok)
    \/ WaitDelay
    \/ \E ok \in BOOLEAN : WaitRefresh(ok)

\* The program under the assumption that every API call returns and time
\* advances: a callback that can take a step does take one.  Nothing is
\* assumed of the host or of the remote volume.
FairSpec == Spec /\ WF_vars(Step)

----------------------------------------------------------------------------
(* Two resources whose callbacks run concurrently on distinct volumes.     *)
(* Each invocation has its own bag d and its own locals; what it shares    *)
(* with the other is the remote API.  Next to each invocation runs the     *)
(* same invocation alone: given the same answers and the same behaviour of *)
(* its own volume, against an API that serves no other volume.  The two    *)
(* invocations are goroutines of the one plugin process (plugin.Serve): a  *)
(* nil pointer dereference in one of them is a panic nobody recovers, and  *)
(* the process ends with every invocation in flight.                       *)

\* The volume of resource i: the id it declares, or is given at creation.
PairId(i) == IF i = 1 THEN VolId ELSE VolId2

PairBag(i) ==
    [id |-> PairId(i), name |-> "foo", description |-> "volume test",
     driver |-> "rancher-nfs", environment_id |-> "env1"]

PairVol(state) ==
    [state |-> state, name |-> "foo", description |-> "volume test",
     driver |-> "rancher-nfs", accountId |-> "env1"]

\* client.Volume.ById(id) against the volumes W of an API.
Look(W, id) == IF id \in DOMAIN W THEN W[id] ELSE Nil

\* What one step of a callback leaves: its locals, its bag, and the write
\* it made to the API.
Out(me, bag, eff) == [inv |-> me, bag |-> bag, eff |-> eff]

NoEff == [kind |-> "none", id |-> NoId, vol |-> Nil]

\* The callback has returned nil or an error, or the plugin has crashed.
Returned(me, how) ==
    [me EXCEPT !.pc = "idle", !.wstep = "none", !.ret = how, !.at = me.pc,
               !.local = Nil, !.n = 0, !.wid = NoId]

\* A nil pointer dereference: the host keeps the bag it had persisted.
Crashed(me) == Out(Returned(me, "panic"), me.before, NoEff)

\* The plugin process ended under a running invocation, which hands nothing
\* back: for the host it crashed where it stood.
Killed(me) == Returned(me, "panic")

\* The API after a write: Create, Update (name and description) or
\* ActionRemove of the volume eff.id.
Apply(W, eff) ==
    CASE eff.kind = "create" -> [W EXCEPT ![eff.id] = eff.vol]
      [] eff.kind = "update" ->
           [W EXCEPT ![eff.id] = [@ EXCEPT !.name = eff.vol.name,
                                           !.description = eff.vol.description]]
      [] eff.kind = "remove" -> [W EXCEPT ![eff.id] = [@ EXCEPT !.state = "removing"]]
      [] OTHER -> W

\* WaitForState with the refresh closure fetching the volume `cap`.
WaitStep(me, bag, W, cap, ok) ==
    IF me.wstep = "delay" THEN Out([me EXCEPT !.wstep = "poll"], bag, NoEff)
    ELSE
    LET ph == PhaseOf(me.pc)
        v == Look(W, cap)
        r == IF ~ok THEN [kind |-> "error", state |-> ""]
             ELSE IF v = Nil THEN [kind |-> "panic", state |-> ""]
             ELSE [kind |-> "value", state |-> v.state]
        out == WaitOutcome(Conf(ph), me.n + 1, r)
        saw == [me EXCEPT !.n = @ + 1]
    IN IF out = "panic" THEN Crashed(saw)
       ELSE IF out = "continue" THEN Out(saw, bag, NoEff)
       ELSE IF WaitErrReturned(out) THEN Out(Returned(saw, "error"), bag, NoEff)
       ELSE CASE ph = "create" ->
                   Out([saw EXCEPT !.pc = "read_client", !.wstep = "none"],
                       CreatedBag(bag, me.wid), NoEff)
              [] ph = "drain" ->
                   Out([saw EXCEPT !.pc = "delete_refresh", !.wstep = "none"],
                       bag, NoEff)
              [] ph = "remove" ->
                   Out(Returned(saw, "nil"), DeletedBag(bag), NoEff)

\* resourceRancherVolumeCreate up to its wait; newId is the id the platform
\* gives the new volume.
CreateStep(me, bag, W, newId, ok) ==
    CASE me.pc = "create_client" ->
           IF ok THEN Out([me EXCEPT !.pc = "create_call"], bag, NoEff)
           ELSE Out(Returned(me, "error"), bag, NoEff)
      [] me.pc = "create_call" ->
           IF ok
           THEN Out([me EXCEPT !.wid = newId, !.pc = "create_wait",
                               !.wstep = "delay", !.n = 0],
                    bag, [kind |-> "create", id |-> newId, vol |-> NewVolume(bag)])
           ELSE Out(Returned(me, "error"), bag, NoEff)

\* resourceRancherVolumeRead
ReadStep(me, bag, W, ok) ==
    CASE me.pc = "read_client" ->
           IF ok THEN Out([me EXCEPT !.pc = "read_byid"], bag, NoEff)
           ELSE Out(Returned(me, "error"), bag, NoEff)
      [] me.pc = "read_byid" ->
           IF ok THEN Out(Returned(me, "nil"), ReadBag(bag, Look(W, bag.id)), NoEff)
           ELSE Out(Returned(me, "error"), bag, NoEff)

\* resourceRancherVolumeUpdate up to its trailing read
UpdateStep(me, bag, W, ok) ==
    CASE me.pc = "update_client" ->
           IF ok THEN Out([me EXCEPT !.pc = "update_byid"], bag, NoEff)
           ELSE Out(Returned(me, "error"), bag, NoEff)
      [] me.pc = "update_byid" ->
           IF ~ok THEN Out(Returned(me, "error"), bag, NoEff)
           ELSE IF Look(W, bag.id) = Nil THEN Crashed(me)
           ELSE Out([me EXCEPT !.local = UpdatedVolume(Look(W, bag.id), bag),
                               !.pc = "update_call"], bag, NoEff)
      [] me.pc = "update_call" ->
           Out([me EXCEPT !.local = Nil, !.pc = "read_client"], bag,
               IF ok /\ Look(W, bag.id) # Nil
               THEN [kind |-> "update", id |-> bag.id, vol |-> me.local]
               ELSE NoEff)

\* resourceRancherVolumeDelete between its waits
DeleteStep(me, bag, W, ok) ==
    CASE me.pc = "delete_client" ->
           IF ok THEN Out([me EXCEPT !.pc = "delete_byid"], bag, NoEff)
           ELSE Out(Returned(me, "error"), bag, NoEff)
      [] me.pc = "delete_byid" ->
           IF ok
           THEN Out([me EXCEPT !.wid = bag.id, !.pc = "delete_drain",
                               !.wstep = "delay", !.n = 0], bag, NoEff)
           ELSE Out(Returned(me, "error"), bag, NoEff)
      [] me.pc = "delete_refresh" ->
           IF ~ok THEN Out(Returned(me, "error"), bag, NoEff)
           ELSE IF Look(W, bag.id) = Nil THEN Crashed(me)
           ELSE Out([me EXCEPT !.local = Look(W, bag.id), !.pc = "delete_remove"],
                    bag, NoEff)
      [] me.pc = "delete_remove" ->
           IF ok /\ me.local.state \in Removable
                 /\ Look(W, bag.id).state \in Removable
           THEN Out([me EXCEPT !.local = Nil, !.pc = "delete_wait",
                               !.wstep = "delay", !.n = 0],
                    bag, [kind |-> "remove", id |-> bag.id, vol |-> Nil])
           ELSE Out(Returned(me, "error"), bag, NoEff)

\* resourceRancherVolumeImport
ImportStep(me, bag, W, ok) ==
    CASE me.pc = "import_split" ->
           LET parts == splitID(me.raw)
           IN IF ScopeGiven(parts.envID)
              THEN Out(Returned(me, "nil"),
                       [bag EXCEPT !.id = parts.resourceID,
                                   !.environment_id = parts.envID], NoEff)
              ELSE Out([me EXCEPT !.pc = "import_client"],
                       [bag EXCEPT !.id = parts.resourceID], NoEff)
      [] me.pc = "import_client" ->
           IF ok THEN Out([me EXCEPT !.pc = "import_byid"], bag, NoEff)
           ELSE Out(Returned(me, "error"), ImportFailed, NoEff)
      [] me.pc = "import_byid" ->
           IF ~ok THEN Out(Returned(me, "error"), ImportFailed, NoEff)
           ELSE IF Look(W, bag.id) = Nil THEN Crashed(me)
           ELSE Out(Returned(me, "nil"),
                    [bag EXCEPT !.environment_id = Look(W, bag.id).accountId],
                    NoEff)

\* One step of the callback standing at me.pc, against the API W.
CallbackStep(me, bag, W, cap, newId, ok) ==
    CASE me.pc \in WaitPcs -> WaitStep(me, bag, W, cap, ok)
      [] me.pc \in {"create_client", "create_call"} ->
           CreateStep(me, bag, W, newId, ok)
      [] me.pc \in {"read_client", "read_byid"} -> ReadStep(me, bag, W, ok)
      [] me.pc \in {"update_client", "update_byid", "update_call"} ->
           UpdateStep(me, bag, W, ok)
      [] me.pc \in {"delete_client", "delete_byid", "delete_refresh",
                    "delete_remove"} -> DeleteStep(me, bag, W, ok)
      [] me.pc \in {"import_split", "import_client", "import_byid"} ->
           ImportStep(me, bag, W, ok)
      [] OTHER -> Out(me, bag, NoEff)

\* The volumeID the refresh closure of invocation i fetches: the parameter
\* VolumeStateRefreshFunc was called with.
CapturedId(i) == invs[i].wid

\* The plugin process has ended in a panic.
Dead == \E i \in Inv : invs[i].ret = "panic"

\* The host invokes callback o on resource i, which it has not touched yet,
\* in the running plugin process.
PairBegin(i, o, p, bag, raw) ==
    /\ ~Dead
    /\ invs[i].ret = "none"
    /\ LET me == [NoInv EXCEPT !.op = o, !.pc = p, !.ret = "running",
                               !.raw = raw,
                               !.before = IF bags[i].id = NoId THEN EmptyBag
                                          ELSE bags[i]]
       IN /\ invs' = [invs EXCEPT ![i] = me]
          /\ bags' = [bags EXCEPT ![i] = bag]
          /\ alone' = [alone EXCEPT ![i] = [@ EXCEPT !.inv = me, !.bag = bag]]
    /\ UNCHANGED <<vols, solo>>

PairStartCreate(i) ==
    /\ bags[i].id = NoId
    /\ vols[PairId(i)] = Nil
    /\ PairBegin(i, "create", "create_client", [PairBag(i) EXCEPT !.id = NoId],
                 NoId)

PairStartRead(i) ==
    /\ bags[i].id # NoId
    /\ PairBegin(i, "read", "read_client", bags[i], NoId)

PairStartUpdate(i, name, driver) ==
    /\ bags[i].id # NoId
    /\ PairBegin(i, "update", "update_client",
                 [bags[i] EXCEPT !.name = name, !.driver = driver], NoId)

PairStartDelete(i) ==
    /\ bags[i].id # NoId
    /\ PairBegin(i, "delete", "delete_client", bags[i], NoId)

PairStartImport(i, raw) ==
    /\ bags[i].id = NoId
    /\ PairBegin(i, "import", "import_split", EmptyBag, raw)

\* Invocation i takes its next step against the shared API, and the same
\* invocation running alone takes its next step, with the same answer,
\* against its own API.  When the step is a panic the process ends, and the
\* other invocation, if it is in flight, ends with it; its run alone, in a
\* process of its own, goes on.
PairStep(i, ok) ==
    /\ invs[i].pc # "idle"
    /\ LET real == CallbackStep(invs[i], bags[i], vols, CapturedId(i),
                                PairId(i), ok)
           sh == alone[i]
           lone == CallbackStep(sh.inv, sh.bag, sh.world, sh.inv.wid,
                                PairId(i), ok)
           hit(j) == real.inv.ret = "panic" /\ j # i /\ invs[j].pc # "idle"
       IN /\ invs' = [j \in Inv |-> IF j = i THEN real.inv
                                    ELSE IF hit(j) THEN Killed(invs[j])
                                    ELSE invs[j]]
          /\ bags' = [j \in Inv |-> IF j = i THEN real.bag
                                    ELSE IF hit(j) THEN invs[j].before
                                    ELSE bags[j]]
          /\ vols' = Apply(vols, real.eff)
          /\ alone' = [j \in Inv |->
                         IF j = i
                         THEN [orphan |-> FALSE, inv |-> lone.inv,
                               bag |-> lone.bag,
                               world |-> Apply(sh.world, lone.eff)]
                         ELSE IF hit(j) THEN [alone[j] EXCEPT !.orphan = TRUE]
                         ELSE alone[j]]
    /\ UNCHANGED solo

\* The run alone of an invocation that ended with the process takes its
\* next step.
PairAlone(i, ok) ==
    /\ alone[i].orphan
    /\ alone[i].inv.pc # "idle"
    /\ LET sh == alone[i]
           lone == CallbackStep(sh.inv, sh.bag, sh.world, sh.inv.wid,
                                PairId(i), ok)
       IN alone' = [alone EXCEPT ![i] = [orphan |-> TRUE, inv |-> lone.inv,
                                         bag |-> lone.bag,
                                         world |-> Apply(sh.world, lone.eff)]]
    /\ UNCHANGED <<bags, vols, invs, solo>>

PairCreate(i, ok) ==
    /\ invs[i].pc \in {"create_client", "create_call"}
    /\ PairStep(i, ok)

PairRead(i, ok) ==
    /\ invs[i].pc \in {"read_client", "read_byid"}
    /\ PairStep(i, ok)

PairUpdate(i, ok) ==
    /\ invs[i].pc \in {"update_client", "update_byid", "update_call"}
    /\ PairStep(i, ok)

PairDelete(i, ok) ==
    /\ invs[i].pc \in {"delete_client", "delete_byid", "delete_refresh",
                       "delete_remove"}
    /\ PairStep(i, ok)

PairImport(i, ok) ==
    /\ invs[i].pc \in {"import_split", "import_client", "import_byid"}
    /\ PairStep(i, ok)

PairWaitDelay(i) ==
    /\ invs[i].pc \in WaitPcs
    /\ invs[i].wstep = "delay"
    /\ PairStep(i, TRUE)

PairWaitRefresh(i, ok) ==
    /\ invs[i].pc \in WaitPcs
    /\ invs[i].wstep = "poll"
    /\ PairStep(i, ok)

\* The volume v changes state on its own, as in RemoteStep, under the eyes
\* of both invocations and of its owner running alone (as long as the two
\* runs of the owner are the same run).
PairRemoteStep(i, s) ==
    LET v == PairId(i)
    IN /\ vols[v].state \in States
       /\ IF removed(vols[v].state) THEN s = "absent"
          ELSE s \in States \ {vols[v].state}
       /\ vols' = [vols EXCEPT ![v] = IF s = "absent" THEN Nil
                                      ELSE [@ EXCEPT !.state = s]]
       /\ alone' = [alone EXCEPT ![i].world[v] =
                      IF alone[i].orphan \/ @ = Nil THEN @
                      ELSE IF s = "absent" THEN Nil
                      ELSE [@ EXCEPT !.state = s]]
       /\ UNCHANGED <<bags, invs, solo>>

\* The same, for the volume behind a run alone that goes on after the
\* process of the pair has ended.
PairAloneRemoteStep(i, s) ==
    LET v == PairId(i)
        w == alone[i].world[v]
    IN /\ alone[i].orphan
       /\ alone[i].inv.pc # "idle"
       /\ w.state \in States
       /\ IF removed(w.state) THEN s = "absent"
          ELSE s \in States \ {w.state}
       /\ alone' = [alone EXCEPT ![i].world[v] =
                      IF s = "absent" THEN Nil ELSE [@ EXCEPT !.state = s]]
       /\ UNCHANGED <<bags, vols, invs, solo>>

\* Each resource is under management or not, its volume there or not.
PairInit ==
    /\ SoloInit
    /\ vol = Nil
    /\ bags \in [Inv -> {EmptyBag} \cup {PairBag(i) : i \in Inv}]
    /\ \A i \in Inv : bags[i] \in {EmptyBag, PairBag(i)}
    /\ vols \in [PairIds -> {Nil, PairVol("inactive"), PairVol("active")}]
    /\ invs = [i \in Inv |-> NoInv]
    /\ alone = [i \in Inv |->
                  [orphan |-> FALSE, inv |-> NoInv, bag |-> bags[i],
                   world |-> [v \in PairIds |->
                                IF v = PairId(i) THEN vols[v] ELSE Nil]]]

PairNext ==
    \/ \E i \in Inv : PairStartCreate(i)
    \/ \E i \in Inv : PairStartRead(i)
    \/ \E i \in Inv, n \in Names \ CreateNames, dr \in CreateDrivers :
          PairStartUpdate(i, n, dr)
    \/ \E i \in Inv : PairStartDelete(i)
    \/ \E i \in Inv : PairStartImport(i, PairId(i))
    \/ \E i \in Inv : PairStartImport(i, <<"env1", "/">> \o PairId(i))
    \/ \E i \in Inv, ok \in BOOLEAN : PairCreate(i, ok)
    \/ \E i \in Inv, ok \in BOOLEAN : PairRead(i, ok)
    \/ \E i \in Inv, ok \in BOOLEAN : PairUpdate(i, ok)
    \/ \E i \in Inv, ok \in BOOLEAN : PairDelete(i, ok)
    \/ \E i \in Inv, ok \in BOOLEAN : PairImport(i, ok)
    \/ \E i \in Inv : PairWaitDelay(i)
    \/ \E i \in Inv, ok \in BOOLEAN : PairWaitRefresh(i, ok)
    \/ \E i \in Inv, s \in States \cup {"absent"} : PairRemoteStep(i, s)
    \/ \E i \in Inv, ok \in BOOLEAN : PairAlone(i, ok)
    \/ \E i \in Inv, s \in States \cup {"absent"} : PairAloneRemoteStep(i, s)

PairSpec == PairInit /\ [][PairNext]_vars

----------------------------------------------------------------------------
(* Properties *)

IsPrefix(seq, full) ==
    /\ Len(seq) <= Len(full)
    /\ seq = SubSeq(full, 1, Len(seq))

Last(seq) == seq[Len(seq)]

\* The position at which a callback waits in a phase.
WaitPc(ph) ==
    CASE ph = "create" -> "create_wait"
      [] ph = "drain" -> "delete_drain"
      [] ph = "remove" -> "delete_wait"

\* The last invocation was callback o and has ended.
Ended(o) == op = o /\ pc = "idle"

\* Every fetch of phase ph so far returned a state (none failed or crashed).
AllFetched(ph) == fetches[ph] = Len(obs[ph])

CreateScenario == <<"creating", "creating", "inactive">>
DrainScenario == <<"active", "deactivating", "inactive">>
RemoveScenario == <<"removing", "removed">>

\* C1: a create whose Create call succeeds and whose fetches observe creating,
\* creating, inactive calls Create once, is still polling after each of the
\* two creating observations, succeeds on the third fetch after two sleeps,
\* stores the new volume's id, and returns nil once the read has copied the
\* remote name and driver into the bag.
C1_CreateScenario ==
    ( /\ op = "create"
      /\ obs["create"] # <<>>
      /\ IsPrefix(obs["create"], CreateScenario)
      /\ AllFetched("create")
      /\ failed = {}
      /\ err.kind # "client" )
    => /\ calls["Create"] = 1
       /\ Len(obs["create"]) < 3 => pc = "create_wait"
       /\ obs["create"] = CreateScenario
            => /\ pc # "create_wait"
               /\ sleeps["create"] = 2
               /\ ret # "error"
               /\ (pc = "idle" /\ vol.state \in States \ {"removed"})
                    => /\ ret = "nil"
                       /\ d.id = VolId
                       /\ d.name = vol.name
                       /\ d.driver = vol.driver

\* C2: a delete whose drain fetches observe active, deactivating, inactive
\* and whose removal fetches observe removing, removed never fails in a
\* convergence phase, calls ActionRemove exactly once, after the third drain
\* fetch and before the first removal fetch, clears the id and returns nil.
C2_DeleteScenario ==
    ( /\ op = "delete"
      /\ obs["drain"] # <<>>
      /\ IsPrefix(obs["drain"], DrainScenario)
      /\ IsPrefix(obs["remove"], RemoveScenario)
      /\ AllFetched("drain")
      /\ AllFetched("remove") )
    => /\ err.kind \notin {"unexpected", "timeout"}
       /\ calls["ActionRemove"] <= 1
       /\ removeAt.called => (removeAt.drain = 3 /\ removeAt.remove = 0)
       /\ obs["remove"] # <<>> => calls["ActionRemove"] = 1
       /\ (obs["drain"] = DrainScenario /\ obs["remove"] = RemoveScenario)
            => /\ pc = "idle"
               /\ ret = "nil"
               /\ d.id = NoId
               /\ calls["ActionRemove"] = 1

C2_Witness ==
    /\ Ended("delete")
    /\ obs["drain"] = DrainScenario
    /\ obs["remove"] = RemoveScenario
    /\ AllFetched("drain")
    /\ AllFetched("remove")

\* C3: once a delete has returned nil, the remote volume is absent or in
\* state removed, and the declared id is empty.
C3_DeleteLeavesRemoved ==
    (Ended("delete") /\ ret = "nil")
    => /\ vol.state \in {"removed", "absent"}
       /\ d.id = NoId

C3_Witness ==
    /\ Ended("delete")
    /\ ret = "nil"
    /\ dBefore.id = VolId

\* C4 as claimed: whenever a create or delete returns an error, the declared
\* id equals its value before the invocation began.
C4_NoPartialSuccess ==
    ((Ended("create") \/ Ended("delete")) /\ ret = "error")
    => d.id = dBefore.id

\* C4 as amended: a create or delete that returns an error from client
\* resolution, an API call or a convergence phase leaves the declared id as
\* it was before the invocation; an error from the read that follows create
\* leaves the declared id set to the new volume's id.
C4_IdAfterError ==
    ((Ended("create") \/ Ended("delete")) /\ ret = "error")
    => IF op = "create" /\ err.at \in {"read_client", "read_byid"}
       THEN d.id = VolId /\ dBefore.id = NoId
       ELSE d.id = dBefore.id

C4_Witness ==
    /\ Ended("create")
    /\ ret = "error"
    /\ err.at = "read_byid"
    /\ d.id = VolId

\* C5: a read whose ById reports not found, or returns a volume in a removed
\* state, clears the declared id and returns nil.
C5_ReadAbsence ==
    [][( /\ pc = "read_byid"
         /\ calls' # calls
         /\ failed' = failed
         /\ (ById(d.id) = Nil \/ removed(ById(d.id).state)) )
       => (pc' = "idle" /\ ret' = "nil" /\ d'.id = NoId)]_vars

C5_Witness ==
    /\ Ended("read")
    /\ ret = "nil"
    /\ dBefore.id = VolId
    /\ d.id = NoId
    /\ vol.state \in {"removed", "absent"}

\* C6: in delete's post-remove phase a fetch that reports not found ends the
\* phase with success: the declared id is cleared and delete returns nil.
C6_RemovalNotFound ==
    [][( /\ pc = "delete_wait"
         /\ fetches' # fetches
         /\ failed' = failed
         /\ ById(wid) = Nil )
       => (pc' = "idle" /\ ret' = "nil" /\ d'.id = NoId)]_vars

\* The states a phase still records as pending before its last observation.
PendingOnly(ph) == Conf(ph).Pending \ Conf(ph).Target

\* C7: in every convergence phase, once a fetch has returned a state in
\* neither the pending nor the target set, that fetch is the phase's last,
\* the wait has failed with an unexpected-state error and the callback has
\* returned an error.
C7_UnexpectedState ==
    \A ph \in Phases :
        ( /\ obs[ph] # <<>>
          /\ Last(obs[ph]) \notin Conf(ph).Pending \cup Conf(ph).Target )
        => /\ pc = "idle"
           /\ ret = "error"
           /\ err = [kind |-> "unexpected", at |-> WaitPc(ph)]
           /\ AllFetched(ph)
           /\ \A i \in 1 .. Len(obs[ph]) - 1 : obs[ph][i] \in PendingOnly(ph)

C7_Witness ==
    /\ Ended("delete")
    /\ obs["remove"] # <<>>
    /\ Last(obs["remove"]) = "active"
    /\ err.kind = "unexpected"

\* C8: in every convergence phase, once every fetch that fits into the
\* timeout has returned a pending state, the wait has failed with a timeout
\* error, the callback has returned an error and no further fetch is made.
C8_Timeout ==
    \A ph \in Phases :
        ( /\ Len(obs[ph]) >= MaxPolls
          /\ \A i \in 1 .. Len(obs[ph]) : obs[ph][i] \in PendingOnly(ph) )
        => /\ pc = "idle"
           /\ ret = "error"
           /\ err = [kind |-> "timeout", at |-> WaitPc(ph)]
           /\ fetches[ph] = MaxPolls
           /\ Len(obs[ph]) = MaxPolls

C8_Witness ==
    /\ Ended("delete")
    /\ err = [kind |-> "timeout", at |-> "delete_drain"]
    /\ Len(obs["drain"]) = MaxPolls

\* The target state(s) of each call site.
SiteTarget(ph) ==
    CASE ph = "create" -> {"inactive"}
      [] ph = "drain" -> {"inactive", "detached"}
      [] ph = "remove" -> {"removed"}

\* C9: in every convergence phase, when the first fetch returns a target
\* state the wait succeeds after that single fetch, having slept only the
\* initial delay; so for create with inactive and post-remove with removed.
C9_ImmediateTarget ==
    \A ph \in Phases :
        (obs[ph] # <<>> /\ obs[ph][1] \in SiteTarget(ph))
        => /\ fetches[ph] = 1
           /\ delays[ph] = 1
           /\ sleeps[ph] = 0
           /\ pc # WaitPc(ph)
           /\ err.at # WaitPc(ph)

C9_Witness ==
    /\ Ended("create")
    /\ obs["create"] = <<"inactive">>
    /\ ret = "nil"
    /\ d.id = VolId

\* C10: an invocation in which a remote API call failed with a transport
\* error returns an error, and made that call only once.
C10_NoErrorSwallowed ==
    (pc = "idle" /\ failed # {})
    => /\ ret = "error"
       /\ \A api \in failed \ {"ById", "Refresh"} : calls[api] = 1

\* C11: an update or a delete whose ById of the declared id is answered with
\* "not found" returns an error at that point: it does not go on, does not
\* crash, makes no Update or ActionRemove call and leaves the id as it was.
C11_NotFoundIsError ==
    [][ ( /\ pc \in {"update_byid", "delete_byid"}
          /\ pc' # pc
          /\ failed' = failed
          /\ ById(d.id) = Nil )
        => /\ pc' = "idle"
           /\ ret' = "error"
           /\ d'.id = d.id
           /\ calls'["Update"] = 0
           /\ calls'["ActionRemove"] = 0 ]_vars

\* C12: a read invoked right after a read that returned nil, with the remote
\* volume left alone since that read's fetch, leaves the declared bag as the
\* first read left it, whether it fails or not, and returns nil again when
\* its calls are answered.
C12_ReadIdempotent ==
    [][ ( /\ op = "read"
          /\ reads >= 1
          /\ pc \in {"read_client", "read_byid"}
          /\ pc' = "idle" )
        => /\ d' = d
           /\ (pc = "read_byid" /\ failed' = failed)
              => (ret' = "nil" /\ err' = NoErr) ]_vars

C12_Witness ==
    /\ Ended("read")
    /\ reads = 2
    /\ ret = "nil"
    /\ d.id = VolId
    /\ d.name = vol.name
    /\ d.driver = vol.driver

\* C13: when an update whose calls were all answered returns nil, the
\* declared name, description and driver are the ones the update was
\* invoked with (the bag as it stood before update's trailing read).
C13_UpdateApplied ==
    [][ ( /\ op = "update"
          /\ pc = "read_byid"
          /\ ret' = "nil"
          /\ failed' = {}
          /\ d'.id # NoId )
        => /\ d'.name = d.name
           /\ d'.description = d.description
           /\ d'.driver = d.driver ]_vars

\* C14: an import invoked with <scope>/<id> never resolves the global client
\* and never calls ById, and ends with nil, the declared scope id <scope>
\* and the declared id <id>.
C14_ScopedImport ==
    (op = "import" /\ Len(rawId) = 3 /\ rawId[2] = "/")
    => /\ pc \notin {"import_client", "import_byid"}
       /\ calls["ById"] = 0
       /\ pc = "idle" => /\ ret = "nil"
                         /\ d.environment_id = rawId[1]
                         /\ d.id = <<rawId[3]>>

C14_Witness ==
    /\ Ended("import")
    /\ rawId = <<"env1", "/", "vol-123">>
    /\ ret = "nil"
    /\ d.environment_id = "env1"
    /\ d.id = <<"vol-123">>
    /\ calls["ById"] = 0

\* C15: an import invoked with a bare <id> does not crash: it ends with nil
\* or with an error; when it ends with nil it has called ById exactly once,
\* the declared id is <id> and the declared scope id is the owning scope of
\* the volume fetched.
C15_BareImport ==
    (Ended("import") /\ rawId # NoId /\ SlashAt(rawId, 1) = 0)
    => /\ ret \in {"nil", "error"}
       /\ ret = "nil" => /\ calls["ById"] = 1
                         /\ d.id = rawId
                         /\ ById(rawId) # Nil => d.environment_id = ById(rawId).accountId

\* C16: whenever a callback waits in a convergence phase, the pending set
\* and the target set of the request it issued are disjoint.
C16_DisjointSets ==
    \A ph \in Phases :
        pc = WaitPc(ph) => Conf(ph).Pending \cap Conf(ph).Target = {}

\* C17 as stated: ActionRemove is called at most once per invocation, after
\* a drain fetch that observed inactive or detached, and never while the
\* state the callback observed last (the volume it fetched again after the
\* drain) is active or deactivating.
C17_NeverRemoveActive ==
    [][ calls'["ActionRemove"] > calls["ActionRemove"]
        => /\ calls["ActionRemove"] = 0
           /\ obs["drain"] # <<>>
           /\ Last(obs["drain"]) \in {"inactive", "detached"}
           /\ volume.state \notin {"active", "deactivating"} ]_vars

\* C17: ActionRemove is called by delete only, at most once, after all the
\* drain fetches, the last of which observed inactive or detached; it is
\* not called when the drain wait failed.
C17_RemoveAfterDrain ==
    /\ calls["ActionRemove"] <= 1
    /\ removeAt.called <=> calls["ActionRemove"] = 1
    /\ removeAt.called
       => /\ op = "delete"
          /\ obs["drain"] # <<>>
          /\ Last(obs["drain"]) \in {"inactive", "detached"}
          /\ \A i \in 1 .. Len(obs["drain"]) - 1 :
                obs["drain"][i] \in {"active", "deactivating"}
          /\ removeAt.drain = Len(obs["drain"])
          /\ fetches["drain"] = removeAt.drain
    /\ err.at = "delete_drain" => ~removeAt.called

C17_Witness ==
    /\ Ended("delete")
    /\ removeAt.called
    /\ calls["ActionRemove"] = 1
    /\ obs["drain"] = <<"active", "detached">>

\* Under FairSpec every create and every delete invocation ends, by a
\* return or by a panic, whatever the remote volume does meanwhile.
EveryInvocationEnds ==
    \A o \in {"create", "delete"} :
        (op = o /\ pc # "idle") ~> (op = o /\ pc = "idle")

\* C18: every create and every delete invocation eventually returns, with
\* nil or with an error, whatever the remote volume does meanwhile.
C18_Returns ==
    /\ \A o \in {"create", "delete"} :
          (op = o /\ pc # "idle") ~> (op = o /\ pc = "idle")
    /\ [](\A o \in {"create", "delete"} : Ended(o) => ret \in {"nil", "error"})

\* C20: a delete whose first drain fetch finds the volume already removing
\* or removed has made no further fetch and has returned an unexpected-state
\* error of the drain wait, without calling ActionRemove and with the
\* declared id as it was when delete was invoked.
C20_DeleteOfRemoved ==
    ( /\ op = "delete"
      /\ obs["drain"] # <<>>
      /\ obs["drain"][1] \in {"removing", "removed"} )
    => /\ pc = "idle"
       /\ ret = "error"
       /\ err = [kind |-> "unexpected", at |-> "delete_drain"]
       /\ fetches["drain"] = 1
       /\ fetches["remove"] = 0
       /\ calls["ActionRemove"] = 0
       /\ d.id # NoId
       /\ d.id = dBefore.id

C20_Witness ==
    /\ Ended("delete")
    /\ obs["drain"] = <<"removed">>
    /\ ret = "error"
    /\ d.id = VolId
    /\ vol.state = "removed"

\* The invocation x has handed its result back, or crashed.
PairEnded(x) == x.ret \in {"nil", "error", "panic"}

\* As long as the plugin process lives, each of the two concurrent
\* invocations stands where the same invocation run alone stands, with the
\* same result, the same declared bag and the same volume behind it, and a
\* step of one that is not a panic leaves the other's locals, declared bag
\* and remote volume as they were.
NoInterferenceWhileAlive ==
    /\ [](~Dead => \A i \in Inv :
                     /\ invs[i] = alone[i].inv
                     /\ bags[i] = alone[i].bag
                     /\ vols[PairId(i)] = alone[i].world[PairId(i)])
    /\ [][~Dead' => \A i \in Inv, j \in Inv :
                      (i # j /\ invs'[i] # invs[i])
                      => /\ invs'[j] = invs[j]
                         /\ bags'[j] = bags[j]
                         /\ vols'[PairId(j)] = vols[PairId(j)]]_vars

\* C19: when callbacks run concurrently on two resources with distinct
\* volumes, each invocation ends with the result and the declared bag with
\* which the same invocation run alone ends; and a step of one invocation
\* leaves the other's locals, declared bag and remote volume as they were.
C19_NoInterference ==
    /\ [](\A i \in Inv :
            (PairEnded(invs[i]) /\ PairEnded(alone[i].inv))
            => /\ invs[i].ret = alone[i].inv.ret
               /\ bags[i] = alone[i].bag)
    /\ [][\A i \in Inv, j \in Inv :
            (i # j /\ invs'[i] # invs[i])
            => /\ invs'[j] = invs[j]
               /\ bags'[j] = bags[j]
               /\ vols'[PairId(j)] = vols[PairId(j)]]_vars

====
